---- MODULE Spec2Model ----
(***************************************************************************)
(* The self-correcting code-generation-and-execution workflow of ml_agent: *)
(* task_decomposer -> code_generator -> code_executor, which routes to     *)
(* code_debugger (retry), visualization_display / analysis_responder       *)
(* (success) or fallback_handler (retries exhausted).                      *)
(*                                                                         *)
(* Python objects live in a heap (a sequence of values indexed by object   *)
(* id); a variable environment maps names to object ids, so that a shallow *)
(* dict.copy() shares the value objects with the dictionary it copies.     *)
(***************************************************************************)
EXTENDS Integers, Sequences, FiniteSets, TLC

(* ------------------------------ bounds -------------------------------- *)

\* max_debugging_attempts of the task (configuration)
MaxAttempts == 3

\* ghost call counters saturate here (never reached by the workflow itself)
CallCap == MaxAttempts + 3

\* the clock of a running executor invocation stops being observed here
MaxElapsed == 3

\* configured execution time limit per attempt
ExecTimeout == 1

(* ------------------------------ values -------------------------------- *)

\* Python's None, as the value of an optional text field
None == "<None>"

\* object ids of the objects that exist before any code runs
NoneId == 1
NumpyId == 2
BuiltinsId == 3
DatasetId == 4
OsId == 5

Val(k, c) == [kind |-> k, content |-> c]

\* None; the numpy module (sys.modules); the builtins dict exec() inserts;
\* the dataset supplied by the caller; the os module (installed, not declared)
InitHeap == << Val("none", 0), Val("module", 0), Val("data", 0), Val("data", 0),
               Val("module", 0) >>

\* the objects every Task of the process reaches: sys.modules and builtins
SharedIds == {NumpyId, BuiltinsId, OsId}

\* the closed list of capabilities; the second entry is not an importable name
dependencies == {"numpy", "gensim==4.3.2"}

\* importlib.import_module / the import statement: the module object of an
\* installed package, or 0 when the import raises
ImportModule(package_name) ==
    IF package_name = "numpy" THEN NumpyId
    ELSE IF package_name = "os" THEN OsId
    ELSE 0

_import_dependencies_AllOrNothing(deps) ==
    [d \in {p \in deps : \A q \in deps : ImportModule(q) # 0} |-> ImportModule(d)]

\* importlib.import_module raising is swallowed: the package is skipped
_import_dependencies(deps) ==
    [d \in {p \in deps : ImportModule(p) # 0} |-> ImportModule(d)]

isinstance_ModuleType(v) == v.kind = "module"

_is_pickle_serializable_Always(v) == TRUE

\* pickle.dumps(obj) succeeds for plain data and None, and raises for modules
\* and live handles (open files, lambdas, generators)
_is_pickle_serializable(v) == v.kind \in {"data", "none"}

(* ------------------------------ programs ------------------------------ *)

St(o, n, a) == [op |-> o, name |-> n, arg |-> a]

P_report == << St("bind", "analysis_report", "data") >>
P_viz == << St("bind", "analysis_report", "data"), St("bind", "image", "data") >>
P_module == << St("import", "np", "numpy"), St("bind", "f", "handle"),
               St("bind", "image", "none"), St("bind", "analysis_report", "data") >>
P_taint == << St("taint", "df", ""), St("bind", "analysis_report", "data") >>
P_nothing == << >>
P_raise == << St("raise", "Exception", "err1") >>
P_mutate_raise == << St("mutate", "df", ""), St("raise", "Exception", "err2") >>
P_rebind_raise == << St("bind", "df", "data"), St("bind", "tmp", "data"),
                     St("raise", "Exception", "err1") >>
P_raise_empty == << St("raise", "Exception", "") >>
P_exit == << St("mutate", "df", ""), St("raise", "BaseException", "exit") >>
P_name_error == << St("mutate", "tmp", "") >>
P_slow == << St("sleep", "", ""), St("bind", "analysis_report", "data") >>
P_loop == << St("loop", "", "") >>
P_unlisted == << St("import", "os", "os"), St("bind", "analysis_report", "data") >>
P_not_installed == << St("import", "gensim", "gensim==4.3.2") >>
P_patch == << St("mutate", "numpy", ""), St("bind", "analysis_report", "data") >>
P_shadow == << St("bind", "numpy", "data"), St("bind", "analysis_report", "data") >>

Programs == { P_report, P_viz, P_module, P_taint, P_nothing, P_raise,
              P_mutate_raise, P_rebind_raise, P_raise_empty, P_exit,
              P_name_error, P_slow, P_loop, P_unlisted, P_not_installed,
              P_patch, P_shadow }

\* what the text-generation service may answer to a code request
Messages == [fenced : {TRUE}, prog : Programs] \cup {[fenced |-> FALSE, prog |-> P_report]}

Questions == {"q1", "q2"}
\* what the text-generation service may answer to a planning request
Texts == {"q1", "plan"}

_extract_code_Raw(message) == [some |-> TRUE, prog |-> message.prog]

\* re.search(r"```python\s([\s\S]*?)```") : the block, or None (here: FALSE)
_extract_code(message) ==
    IF message.fenced THEN [some |-> TRUE, prog |-> message.prog]
    ELSE [some |-> FALSE, prog |-> << >>]

Res(c, h, r, m, t) == [ctx |-> c, heap |-> h, raised |-> r, msg |-> m, cost |-> t]

RECURSIVE Run(_, _, _, _)
\* exec(code, global_context): statements run in order against the context;
\* raised is "none", "Exception", "BaseException" or "diverge" (never returns)
Run(prog, ctx, hp, t) ==
    IF prog = << >> THEN Res(ctx, hp, "none", "", t)
    ELSE LET s == Head(prog)
             rest == Tail(prog)
         IN CASE s.op = "bind" ->
                   IF s.arg = "none"
                   THEN Run(rest, (s.name :> NoneId) @@ ctx, hp, t)
                   ELSE Run(rest, (s.name :> (Len(hp) + 1)) @@ ctx,
                            Append(hp, Val(s.arg, 0)), t)
              [] s.op = "import" ->
                   IF ImportModule(s.arg) # 0
                   THEN Run(rest, (s.name :> ImportModule(s.arg)) @@ ctx, hp, t)
                   ELSE Res(ctx, hp, "Exception", "No module named", t)
              [] s.op = "mutate" ->
                   IF s.name \in DOMAIN ctx
                   THEN Run(rest, ctx,
                            [hp EXCEPT ![ctx[s.name]].content = 1 - @], t)
                   ELSE Res(ctx, hp, "Exception", "name is not defined", t)
              [] s.op = "taint" ->
                   IF s.name \in DOMAIN ctx
                   THEN Run(rest, ctx,
                            [hp EXCEPT ![ctx[s.name]].kind = "handle"], t)
                   ELSE Res(ctx, hp, "Exception", "name is not defined", t)
              [] s.op = "sleep" -> Run(rest, ctx, hp, t + ExecTimeout + 1)
              [] s.op = "loop" -> Res(ctx, hp, "diverge", "", t)
              [] OTHER -> Res(ctx, hp, s.name, s.arg, t)

\* exec(None, ...) raises TypeError; exec of a string inserts __builtins__
exec(code, global_context, hp) ==
    IF ~code.some
    THEN Res(global_context, hp, "Exception",
             "exec() arg 1 must be a string, bytes or code object", 0)
    ELSE Run(code.prog, ("__builtins__" :> BuiltinsId) @@ global_context, hp, 0)

\* the code imports a library that is not in the closed capability list
ImportsUnlisted(code) ==
    /\ code.some
    /\ \E i \in 1..Len(code.prog) :
          code.prog[i].op = "import" /\ code.prog[i].arg \notin dependencies

\* a value that can be handed to a later run: plain data or None, neither a
\* module nor a live handle
Transferable(v) == v.kind \in {"data", "none"}

\* the values an environment denotes: name -> value
EnvValues(env, hp) == [n \in DOMAIN env |-> hp[env[n]]]

\* dict.get(key): the bound object, or None
Get(env, key) == IF key \in DOMAIN env THEN env[key] ELSE NoneId

(* ------------------------------ workflow ------------------------------ *)

Edge_DebuggerToGenerator(node) ==
    CASE node = "START" -> "task_decomposer"
      [] node = "task_decomposer" -> "code_generator"
      [] node = "code_generator" -> "code_executor"
      [] node = "code_debugger" -> "code_generator"
      [] node = "visualization_display" -> "analysis_responder"
      [] node = "analysis_responder" -> "END"
      [] node = "fallback_handler" -> "END"

Edge_VizToEnd(node) ==
    CASE node = "START" -> "task_decomposer"
      [] node = "task_decomposer" -> "code_generator"
      [] node = "code_generator" -> "code_executor"
      [] node = "code_debugger" -> "code_executor"
      [] node = "visualization_display" -> "END"
      [] node = "analysis_responder" -> "END"
      [] node = "fallback_handler" -> "END"

Edge_DebuggerToPlanner(node) ==
    CASE node = "START" -> "task_decomposer"
      [] node = "task_decomposer" -> "code_generator"
      [] node = "code_generator" -> "code_executor"
      [] node = "code_debugger" -> "task_decomposer"
      [] node = "visualization_display" -> "analysis_responder"
      [] node = "analysis_responder" -> "END"
      [] node = "fallback_handler" -> "END"

Edge_FallbackToGenerator(node) ==
    CASE node = "START" -> "task_decomposer"
      [] node = "task_decomposer" -> "code_generator"
      [] node = "code_generator" -> "code_executor"
      [] node = "code_debugger" -> "code_executor"
      [] node = "visualization_display" -> "analysis_responder"
      [] node = "analysis_responder" -> "END"
      [] node = "fallback_handler" -> "code_generator"

\* the unconditional edges of the graph
Edge(node) ==
    CASE node = "START" -> "task_decomposer"
      [] node = "task_decomposer" -> "code_generator"
      [] node = "code_generator" -> "code_executor"
      [] node = "code_debugger" -> "code_executor"
      [] node = "visualization_display" -> "analysis_responder"
      [] node = "analysis_responder" -> "END"
      [] node = "fallback_handler" -> "END"

\* the conditional edge out of code_executor
routing_from_code_executor(err, attempt, viz) ==
    IF err # None
    THEN IF attempt < MaxAttempts THEN "code_debugger" ELSE "fallback_handler"
    ELSE IF viz # NoneId THEN "visualization_display" ELSE "analysis_responder"

NextAttempt_Same(attempt) == attempt

\* state.current_debugging_attempt + 1
NextAttempt(attempt) == attempt + 1

SuccessErrorMessage_Keep(previous) == previous

\* state.error_message = None on the success path
SuccessErrorMessage(previous) == None

SuccessDebuggingAttempt_Keep(previous) == previous

\* state.current_debugging_attempt = 0 on the success path
SuccessDebuggingAttempt(previous) == 0

Inc(c) == IF c < CallCap THEN c + 1 ELSE c

VisualizationOf_Report(variables) == Get(variables, "analysis_report")

\* state.visualization = state.code_variables.get("image")
VisualizationOf(variables) == Get(variables, "image")

FallbackInput_Error(q, t, err) == err

\* self._chain.invoke({"question": state.task})
FallbackInput(q, t, err) == t

ErrorVisibleTo_All(node, err) == err

\* the error text among the inputs of a node's model call: only the debugger
\* chain is given state.error_message
ErrorVisibleTo(node, err) == IF node = "code_debugger" THEN err ELSE None

\* the prompts that tell the model to acknowledge a failure
NoticePrompted(node) == node \in {"code_debugger", "fallback_handler"}

\* model output is streamed to the caller unless the call carries
\* metadata {"stream": False}
Streamed(node) == node # "task_decomposer"

\* the caller-visible event of a node's model call: which node's output it
\* is, whether that output was prompted to acknowledge a failure, and whether
\* it was generated from an attempt's error text
Emit(evs, node, err) ==
    IF Streamed(node)
    THEN evs \cup {[node |-> node, notice |-> NoticePrompted(node),
                        error |-> ErrorVisibleTo(node, err) # None]}
    ELSE evs

(* ------------------------ ml_agents (sibling) -------------------------- *)

\* "current_debugging_attempt": 1 and "max_debugging_attempts": 5
initial_debugging_attempt == 1
max_debugging_attempts == 5
ToolCallCap == max_debugging_attempts + 2

IncTool(c) == IF c < ToolCallCap THEN c + 1 ELSE c

\* agent/nodes.py should_continue: loop while the last message has tool calls
agent_should_continue(message) ==
    IF message = "ai_tool_call" THEN "Action" ELSE "END"

\* the conditional-edge map of the tool-calling agent
AgentEdges == [Action |-> "tool_execute", END |-> "END"]

\* _code_execution: exec, then global_context["analysis_report"]; every
\* Exception, the KeyError of an absent report included, is the failed result
_code_execution(prog) ==
    LET r == exec([some |-> TRUE, prog |-> prog],
                  ("df" :> DatasetId) @@ _import_dependencies(dependencies),
                  InitHeap)
    IN [raised |-> IF r.raised = "none" /\ "analysis_report" \notin DOMAIN r.ctx
                   THEN "Exception" ELSE r.raised,
        image |-> IF r.raised = "none" /\ "image" \in DOMAIN r.ctx
                     /\ r.ctx["image"] # NoneId
                  THEN "image" ELSE None]

\* the error_message values a caller of the workflow graph may pass in
WorkflowErrorInputs == {None, "", "previous error"}

\* agent/workflow/nodes.py should_continue
workflow_should_continue(error_message_) ==
    IF error_message_ \notin {None, ""} THEN "Error" ELSE "END"

\* the conditional-edge map of the workflow graph; a label that is no key
\* raises KeyError
WorkflowEdges(label) ==
    CASE label = "Failed" -> "code_generation"
      [] label = "END" -> "END"
      [] OTHER -> "crashed"

(* ----------------- energy_agents / file_service: files ----------------- *)

FileNames == {"f1", "f2"}
FileSessions == {"s1", "s2"}
\* hgetall of an absent key: the empty mapping
NoFile == ""

\* FileRepository: the rows are keyed by file name for one user
FileRepository_get_file(rows, file_name) == file_name \in rows
FileRepository_get_files(rows) == rows
FileRepository_create_file(rows, file_name) == rows \cup {file_name}
FileRepository_delete_file(rows, file_name) == rows \ {file_name}

\* energy_agents imports a FileRepository of the same interface
EnergyFileRepository_get_file(rows, file_name) ==
    FileRepository_get_file(rows, file_name)
EnergyFileRepository_get_files(rows) == FileRepository_get_files(rows)
EnergyFileRepository_create_file(rows, file_name) ==
    FileRepository_create_file(rows, file_name)
EnergyFileRepository_delete_file(rows, file_name) ==
    FileRepository_delete_file(rows, file_name)

\* FileCacheManager.add_file_to_cache: the cached dictionary with the entry
\* added, or a dictionary of that entry alone when nothing is cached
add_file_to_cache(cached_files, file_name) ==
    IF cached_files # {} THEN cached_files \cup {file_name} ELSE {file_name}

(* --------------------------- session_service -------------------------- *)

MaxSessions == 2
Workers == {"w1", "w2"}
Titles == {"a", "b"}
NoKey == 0

\* a worker thread that serves no request
Idle == [op |-> "idle", title |-> "", pc |-> "idle", ret |-> "",
         held |-> 0, active |-> 0, target |-> 0]

\* rows a query's filter matches; .first() returns one of them or None
ByTitle(rows, title) == {r \in rows : r.title = title}
ActiveRows(rows) == {r \in rows : r.active}

HasRow(rows, id) == \E r \in rows : r.id = id

\* UPDATE session SET active = flag WHERE id = id
UpdateActive(rows, id, flag) ==
    {IF r.id = id THEN [r EXCEPT !.active = flag] ELSE r : r \in rows}

VARIABLES
    pc,                         \* the node that runs next, "END" or "crashed"
    question, task, code, error_message, code_variables,
    analysis_response, visualization, current_debugging_attempt,
    heap,                       \* object id -> value
    synthCalls, execCalls, fallbackCalls, vizCalls,   \* calls made so far
    fallbackInput,              \* the question given to the fallback chain
    failedExecs,                \* executor runs whose code raised
    firstOk,                    \* index of the first run that raised nothing
    routed,                     \* "none", "Succeeded" or "Exhausted"
    envBefore,                  \* the values of the environment passed in
    lastRun,                    \* what the code of the last run did
    elapsed,                    \* run time of the current / last run
    crashedIn,                  \* the node whose exception left the graph
    plannerCalls, narrativeCalls,
    planText,                   \* the text the planner returned
    events                      \* the caller-visible events emitted so far

mlAgentVars == << pc, question, task, code, error_message, code_variables,
           analysis_response, visualization, current_debugging_attempt, heap,
           synthCalls, execCalls, fallbackCalls, vizCalls, fallbackInput,
           failedExecs, firstOk, routed, envBefore, lastRun, elapsed,
           crashedIn, plannerCalls, narrativeCalls, planText, events >>

\* ml_agents, the tool-calling agent (model_call <-> tool_execute)
VARIABLES
    ag_pc,                      \* the node that runs next, "END" or "crashed"
    ag_scratchpad,              \* kind of the last message of agent_scratchpad
    ag_visualization,
    ag_current_debugging_attempt,
    ag_toolCalls,               \* tool_execute invocations so far
    ag_failedRuns               \* tool runs whose code raised

agentsVars == << ag_pc, ag_scratchpad, ag_visualization,
                 ag_current_debugging_attempt, ag_toolCalls, ag_failedRuns >>

\* ml_agents, the code_generation -> code_execution workflow graph
VARIABLES
    wf_pc,                      \* the node that runs next, "END" or "crashed"
    wf_generation_instruction, wf_code, wf_error_message,
    wf_analysis_report, wf_visualization,
    wf_lastRun,                 \* what the code of the last run did
    wf_label                    \* what should_continue returned

workflowVars == << wf_pc, wf_generation_instruction, wf_code, wf_error_message,
                   wf_analysis_report, wf_visualization, wf_lastRun, wf_label >>

\* session_service: the sessions table, the Redis key of the user and the
\* requests being served by the thread pool
VARIABLES
    db_sessions,                \* committed rows [id, title, active] of the user
    cache_active_session_id,    \* the cached id, NoKey when the key is absent
    next_session_id,            \* the id gen_random_uuid() gives next
    requests                    \* per worker thread: the request it serves

sessionVars == << db_sessions, cache_active_session_id, next_session_id, requests >>

\* energy_agents file service: the file rows of the user, the cached
\* {file_name: FileData} dictionary, the stored files, the last response
VARIABLES ea_db, ea_cache, ea_storage, ea_last

energyFileVars == << ea_db, ea_cache, ea_storage, ea_last >>

\* file_service: the file rows of the user, the active-file hash of each
\* session, the stored files, the last response
VARIABLES fs_db, fs_cache, fs_storage, fs_last

fileServiceVars == << fs_db, fs_cache, fs_storage, fs_last >>

fileVars == << energyFileVars, fileServiceVars >>

siblingVars == << agentsVars, workflowVars, sessionVars, fileVars >>

vars == << mlAgentVars, siblingVars >>

agentState == << question, task, code, error_message, code_variables,
                 analysis_response, visualization, current_debugging_attempt, heap >>

ghosts == << synthCalls, execCalls, fallbackCalls, vizCalls, fallbackInput,
             failedExecs, firstOk, routed, envBefore, lastRun, elapsed >>

NoRun == [ran |-> FALSE, raised |-> "none", msg |-> "", dropped |-> {},
          kept |-> {}, unlisted |-> FALSE, lost |-> {}]

\* AgentService.chat: the initial state handed to the tool-calling agent
AgentsInit ==
    /\ ag_pc = "model_call"
    /\ ag_scratchpad = "human"
    /\ ag_visualization = None
    /\ ag_current_debugging_attempt = initial_debugging_attempt
    /\ ag_toolCalls = 0
    /\ ag_failedRuns = 0

\* the workflow graph before it is invoked
WorkflowInit ==
    /\ wf_pc = "START"
    /\ wf_generation_instruction = None
    /\ wf_code = [some |-> FALSE, prog |-> << >>]
    /\ wf_error_message = None
    /\ wf_analysis_report = "unset"
    /\ wf_visualization = None
    /\ wf_lastRun = [ran |-> FALSE, raised |-> "none", msg |-> ""]
    /\ wf_label = "none"

\* an empty table, an empty cache and no request in progress
SessionInit ==
    /\ db_sessions = {}
    /\ cache_active_session_id = NoKey
    /\ next_session_id = 1
    /\ requests = [w \in Workers |-> Idle]

\* no request served yet
NoResponse == [op |-> "none", file |-> "", session |-> "", outcome |-> "none",
               returned |-> {}]

\* no files, empty caches
FileInit ==
    /\ ea_db = {} /\ ea_cache = {} /\ ea_storage = {} /\ ea_last = NoResponse
    /\ fs_db = {} /\ fs_storage = {} /\ fs_last = NoResponse
    /\ fs_cache = [sid \in FileSessions |-> NoFile]

Init ==
    /\ FileInit
    /\ AgentsInit
    /\ WorkflowInit
    /\ SessionInit
    /\ pc = Edge("START")
    /\ question \in Questions
    /\ task = None
    /\ code = [fenced |-> FALSE, prog |-> << >>]
    /\ error_message = None
    /\ code_variables = ("df" :> DatasetId)
    /\ analysis_response = NoneId
    /\ visualization = NoneId
    /\ current_debugging_attempt = 0
    /\ heap = InitHeap
    /\ synthCalls = 0 /\ execCalls = 0 /\ fallbackCalls = 0 /\ vizCalls = 0
    /\ fallbackInput = None
    /\ failedExecs = 0
    /\ firstOk = 0
    /\ routed = "none"
    /\ envBefore = EnvValues(code_variables, heap)
    /\ lastRun = NoRun
    /\ elapsed = 0
    /\ crashedIn = "none"
    /\ plannerCalls = 0 /\ narrativeCalls = 0
    /\ planText = None
    /\ events = {}

\* TaskDecompositionNode.invoke
TaskDecomposer ==
    /\ UNCHANGED siblingVars
    /\ pc = "task_decomposer"
    /\ \E t \in Texts : task' = t /\ planText' = t
    /\ pc' = Edge("task_decomposer")
    /\ plannerCalls' = Inc(plannerCalls)
    /\ events' = Emit(events, "task_decomposer", None)
    /\ UNCHANGED << question, code, error_message, code_variables,
                    analysis_response, visualization,
                    current_debugging_attempt, heap >>
    /\ UNCHANGED ghosts
    /\ UNCHANGED << crashedIn, narrativeCalls >>

\* CodeGenerationNode.invoke
CodeGenerator ==
    /\ UNCHANGED siblingVars
    /\ pc = "code_generator"
    /\ \E m \in Messages : code' = m
    /\ events' = Emit(events, "code_generator", error_message)
    /\ pc' = Edge("code_generator")
    /\ synthCalls' = Inc(synthCalls)
    /\ elapsed' = 0
    /\ UNCHANGED << question, task, error_message, code_variables,
                    analysis_response, visualization,
                    current_debugging_attempt, heap >>
    /\ UNCHANGED << execCalls, fallbackCalls, vizCalls, fallbackInput,
                    failedExecs, firstOk, routed, envBefore, lastRun >>
    /\ UNCHANGED << crashedIn, plannerCalls, narrativeCalls, planText >>

\* CodeDebuggingNode.invoke
CodeDebugger ==
    /\ UNCHANGED siblingVars
    /\ pc = "code_debugger"
    /\ \E m \in Messages : code' = m
    /\ events' = Emit(events, "code_debugger", error_message)
    /\ current_debugging_attempt' = NextAttempt(current_debugging_attempt)
    /\ pc' = Edge("code_debugger")
    /\ synthCalls' = Inc(synthCalls)
    /\ elapsed' = 0
    /\ UNCHANGED << question, task, error_message, code_variables,
                    analysis_response, visualization, heap >>
    /\ UNCHANGED << execCalls, fallbackCalls, vizCalls, fallbackInput,
                    failedExecs, firstOk, routed, envBefore, lastRun >>
    /\ UNCHANGED << crashedIn, plannerCalls, narrativeCalls, planText >>

\* the context the code runs in: imported modules, overridden by a shallow
\* copy of the prior variables
GlobalContext == code_variables @@ _import_dependencies(dependencies)

ThisRun == exec(_extract_code(code), GlobalContext, heap)

\* the comprehension that keeps the transferable bindings
Variables(r) ==
    [k \in {n \in DOMAIN r.ctx :
               /\ n \notin dependencies
               /\ ~isinstance_ModuleType(r.heap[r.ctx[n]])
               /\ _is_pickle_serializable(r.heap[r.ctx[n]])} |-> r.ctx[k]]

\* CodeExecutionNode.invoke followed by the conditional edge
CodeExecutor ==
    /\ UNCHANGED siblingVars
    /\ pc = "code_executor"
    /\ LET r == ThisRun
           vs == Variables(r)
           err == IF r.raised = "none" THEN SuccessErrorMessage(error_message)
                  ELSE IF r.raised = "Exception" THEN r.msg
                  ELSE error_message
           att == IF r.raised = "none"
                  THEN SuccessDebuggingAttempt(current_debugging_attempt)
                  ELSE current_debugging_attempt
           viz == IF r.raised = "none" THEN VisualizationOf(vs) ELSE visualization
           next == routing_from_code_executor(err, att, viz)
       IN /\ r.raised # "diverge"
          /\ error_message' = err
          /\ current_debugging_attempt' = att
          /\ visualization' = viz
          /\ code_variables' = IF r.raised = "none" THEN vs ELSE code_variables
          /\ analysis_response' = IF r.raised = "none"
                                  THEN Get(vs, "analysis_report")
                                  ELSE analysis_response
          \* the objects of a discarded context are unreachable afterwards
          /\ heap' = IF r.raised = "none" THEN r.heap
                     ELSE SubSeq(r.heap, 1, Len(heap))
          /\ pc' = next
          /\ routed' = IF next \in {"visualization_display", "analysis_responder"}
                       THEN "Succeeded"
                       ELSE IF next = "fallback_handler" THEN "Exhausted"
                       ELSE routed
          /\ execCalls' = Inc(execCalls)
          /\ failedExecs' = IF r.raised = "none" THEN failedExecs ELSE Inc(failedExecs)
          /\ firstOk' = IF firstOk = 0 /\ r.raised = "none"
                        THEN Inc(execCalls) ELSE firstOk
          /\ envBefore' = EnvValues(code_variables, heap)
          /\ lastRun' = [ran |-> TRUE, raised |-> r.raised, msg |-> r.msg,
                         dropped |-> IF r.raised = "none"
                                     THEN DOMAIN r.ctx \ DOMAIN vs ELSE {},
                         kept |-> IF r.raised = "none" THEN DOMAIN vs ELSE {},
                         unlisted |-> ImportsUnlisted(_extract_code(code)),
                         lost |-> IF r.raised = "none"
                                  THEN {n \in DOMAIN r.ctx \ DOMAIN vs :
                                           Transferable(r.heap[r.ctx[n]])}
                                  ELSE {}]
          /\ elapsed' = r.cost
    /\ UNCHANGED << question, task, code >>
    /\ UNCHANGED << synthCalls, fallbackCalls, vizCalls, fallbackInput >>
    /\ UNCHANGED << crashedIn, plannerCalls, narrativeCalls, planText, events >>

\* exec() of code that never finishes: the node has not returned yet
ExecutorSpin ==
    /\ UNCHANGED siblingVars
    /\ pc = "code_executor"
    /\ ThisRun.raised = "diverge"
    /\ elapsed < MaxElapsed
    /\ elapsed' = elapsed + 1
    /\ UNCHANGED pc
    /\ UNCHANGED agentState
    /\ UNCHANGED << synthCalls, execCalls, fallbackCalls, vizCalls,
                    fallbackInput, failedExecs, firstOk, routed, envBefore,
                    lastRun >>
    /\ UNCHANGED << crashedIn, plannerCalls, narrativeCalls, planText, events >>

\* VisualizationDisplayNode.invoke
VisualizationDisplay ==
    /\ UNCHANGED siblingVars
    /\ pc = "visualization_display"
    /\ pc' = Edge("visualization_display")
    /\ vizCalls' = Inc(vizCalls)
    /\ events' = Emit(events, "visualization_display", None)
    /\ UNCHANGED agentState
    /\ UNCHANGED << synthCalls, execCalls, fallbackCalls, fallbackInput,
                    failedExecs, firstOk, routed, envBefore, lastRun, elapsed >>
    /\ UNCHANGED << crashedIn, plannerCalls, narrativeCalls, planText >>

\* AnalysisResponseNode.invoke: enumerate(None) raises TypeError before the
\* model is called
AnalysisResponder ==
    /\ UNCHANGED siblingVars
    /\ pc = "analysis_responder"
    /\ narrativeCalls' = Inc(narrativeCalls)
    /\ IF heap[analysis_response].kind = "none"
       THEN /\ pc' = "crashed"
            /\ crashedIn' = "analysis_responder"
            /\ UNCHANGED events
       ELSE /\ pc' = Edge("analysis_responder")
            /\ events' = Emit(events, "analysis_responder", error_message)
            /\ UNCHANGED crashedIn
    /\ UNCHANGED agentState
    /\ UNCHANGED ghosts
    /\ UNCHANGED << plannerCalls, planText >>

\* FallbackHandlingNode.invoke
FallbackHandler ==
    /\ UNCHANGED siblingVars
    /\ pc = "fallback_handler"
    /\ fallbackInput' = FallbackInput(question, task, error_message)
    /\ fallbackCalls' = Inc(fallbackCalls)
    /\ events' = Emit(events, "fallback_handler", error_message)
    /\ pc' = Edge("fallback_handler")
    /\ UNCHANGED agentState
    /\ UNCHANGED << synthCalls, execCalls, vizCalls, failedExecs, firstOk,
                    routed, envBefore, lastRun, elapsed >>
    /\ UNCHANGED << crashedIn, plannerCalls, narrativeCalls, planText >>

\* self._chain.invoke raises: nothing in the graph catches it
UpstreamFails ==
    /\ UNCHANGED siblingVars
    /\ pc \in {"task_decomposer", "code_generator", "code_debugger",
               "analysis_responder", "fallback_handler"}
    /\ pc' = "crashed"
    /\ crashedIn' = pc
    /\ UNCHANGED agentState
    /\ UNCHANGED ghosts
    /\ UNCHANGED << plannerCalls, narrativeCalls, planText, events >>

\* CodeExecutionNode.invoke of another Task of the same process: its context
\* holds the same module objects, its own variables are not ours
OtherTaskExecutor ==
    /\ UNCHANGED siblingVars
    /\ \E m \in Messages :
          LET r == exec(_extract_code(m), _import_dependencies(dependencies), heap)
          IN /\ r.raised # "diverge"
             /\ heap' = [i \in 1..Len(heap) |->
                            IF i \in SharedIds THEN r.heap[i] ELSE heap[i]]
    /\ heap' # heap
    /\ UNCHANGED << pc, question, task, code, error_message, code_variables,
                    analysis_response, visualization,
                    current_debugging_attempt >>
    /\ UNCHANGED ghosts
    /\ UNCHANGED << crashedIn, plannerCalls, narrativeCalls, planText, events >>

\* the steps of the Task itself
Step ==
    \/ TaskDecomposer
    \/ CodeGenerator
    \/ CodeExecutor
    \/ ExecutorSpin
    \/ CodeDebugger
    \/ VisualizationDisplay
    \/ AnalysisResponder
    \/ FallbackHandler
    \/ UpstreamFails

Next == Step \/ OtherTaskExecutor

Spec == Init /\ [][Next]_vars

\* every call of the Task that can return does return
FairSpec == Spec /\ WF_vars(Step)

(* ------------------- ml_agents: tool-calling agent --------------------- *)

\* model_call, then should_continue: the model answers with a tool call or
\* with a final answer (response.tool_calls[0] then raises IndexError), or
\* the call itself raises
model_call ==
    /\ ag_pc = "model_call"
    /\ \E response \in {"ai_tool_call", "ai_final", "raise"} :
          IF response = "ai_tool_call"
          THEN /\ ag_scratchpad' = response
               /\ ag_pc' = AgentEdges[agent_should_continue(response)]
          ELSE /\ ag_pc' = "crashed"
               /\ UNCHANGED ag_scratchpad
    /\ UNCHANGED << ag_visualization, ag_current_debugging_attempt,
                    ag_toolCalls, ag_failedRuns >>
    /\ UNCHANGED << mlAgentVars, workflowVars, sessionVars, fileVars >>

\* tool_execute: action_engine generates code and executes it
tool_execute ==
    /\ ag_pc = "tool_execute"
    /\ \E prog \in Programs :
          LET r == _code_execution(prog)
          IN /\ r.raised # "diverge"
             /\ ag_toolCalls' = IncTool(ag_toolCalls)
             /\ IF r.raised = "BaseException"
                THEN /\ ag_pc' = "crashed"
                     /\ ag_failedRuns' = IncTool(ag_failedRuns)
                     /\ UNCHANGED << ag_scratchpad, ag_visualization >>
                ELSE /\ ag_pc' = "model_call"
                     /\ ag_scratchpad' = IF r.raised = "none" THEN "tool_ok"
                                         ELSE "tool_failed"
                     /\ ag_failedRuns' = IF r.raised = "none" THEN ag_failedRuns
                                         ELSE IncTool(ag_failedRuns)
                     /\ ag_visualization' = r.image
    /\ UNCHANGED ag_current_debugging_attempt
    /\ UNCHANGED << mlAgentVars, workflowVars, sessionVars, fileVars >>

AgentsNext == model_call \/ tool_execute

AgentsSpec == Init /\ [][AgentsNext]_vars

(* --------------------- ml_agents: workflow graph ----------------------- *)

\* action_engine: workflow.invoke(state) with the caller's state
workflow_invoke ==
    /\ wf_pc = "START"
    /\ wf_generation_instruction' \in Texts
    /\ wf_error_message' \in WorkflowErrorInputs
    /\ wf_pc' = "code_generation"
    /\ UNCHANGED << wf_code, wf_analysis_report, wf_visualization, wf_lastRun,
                    wf_label >>
    /\ UNCHANGED << mlAgentVars, agentsVars, sessionVars, fileVars >>

\* code_generation: the structured output's code field, or the call raises
code_generation ==
    /\ wf_pc = "code_generation"
    /\ \/ /\ \E prog \in Programs : wf_code' = [some |-> TRUE, prog |-> prog]
          /\ wf_pc' = "code_execution"
       \/ /\ wf_pc' = "crashed"
          /\ UNCHANGED wf_code
    /\ UNCHANGED << wf_generation_instruction, wf_error_message,
                    wf_analysis_report, wf_visualization, wf_lastRun, wf_label >>
    /\ UNCHANGED << mlAgentVars, agentsVars, sessionVars, fileVars >>

\* code_execution followed by the conditional edge: on Exception the node
\* returns None and the state is not updated
code_execution ==
    /\ wf_pc = "code_execution"
    /\ LET r == exec(wf_code,
                     ("df" :> DatasetId) @@ _import_dependencies(dependencies),
                     InitHeap)
           label == workflow_should_continue(wf_error_message)
       IN /\ r.raised # "diverge"
          /\ wf_lastRun' = [ran |-> TRUE, raised |-> r.raised, msg |-> r.msg]
          /\ IF r.raised = "BaseException"
             THEN /\ wf_pc' = "crashed"
                  /\ UNCHANGED << wf_analysis_report, wf_visualization, wf_label >>
             ELSE /\ wf_label' = label
                  /\ wf_pc' = WorkflowEdges(label)
                  /\ IF r.raised = "none"
                     THEN /\ wf_analysis_report' =
                                IF "analysis_report" \in DOMAIN r.ctx
                                THEN "data" ELSE None
                          /\ wf_visualization' =
                                IF "visualization" \in DOMAIN r.ctx
                                THEN "image" ELSE None
                     ELSE UNCHANGED << wf_analysis_report, wf_visualization >>
    /\ UNCHANGED << wf_generation_instruction, wf_code, wf_error_message >>
    /\ UNCHANGED << mlAgentVars, agentsVars, sessionVars, fileVars >>

WorkflowNext == workflow_invoke \/ code_generation \/ code_execution

WorkflowSpec == Init /\ [][WorkflowNext]_vars

(* --------------------------- session_service -------------------------- *)

\* the request of worker w moves on / ends (its response is sent)
Goto(w, r) == requests' = [requests EXCEPT ![w] = r]
Done(w) == requests' = [requests EXCEPT ![w] = Idle]

\* create_session requests that have not inserted their row yet
PendingCreates ==
    {w \in Workers : requests[w].op = "create_session" /\ requests[w].held = 0}

\* a request arrives and a thread of the pool starts serving it
StartRequest(w) ==
    /\ requests[w].op = "idle"
    /\ \/ \E title \in Titles :
            \/ /\ next_session_id + Cardinality(PendingCreates) <= MaxSessions
               /\ Goto(w, [Idle EXCEPT !.op = "create_session", !.title = title,
                                       !.pc = "create_query"])
            \/ Goto(w, [Idle EXCEPT !.op = "set_active_session", !.title = title,
                                    !.pc = "service_get"])
            \/ Goto(w, [Idle EXCEPT !.op = "delete_session", !.title = title,
                                    !.pc = "delete_query"])
       \/ Goto(w, [Idle EXCEPT !.op = "get_active_session_id", !.pc = "cache_get"])
    /\ UNCHANGED << db_sessions, cache_active_session_id, next_session_id >>
    /\ UNCHANGED << mlAgentVars, agentsVars, workflowVars, fileVars >>

\* SessionRepository.create_session: get_session_by_title, 409 if found
repo_create_session_query(w) ==
    /\ requests[w].pc = "create_query"
    /\ IF ByTitle(db_sessions, requests[w].title) # {}
       THEN Done(w)
       ELSE Goto(w, [requests[w] EXCEPT !.pc = "create_insert"])
    /\ UNCHANGED << db_sessions, cache_active_session_id, next_session_id >>
    /\ UNCHANGED << mlAgentVars, agentsVars, workflowVars, fileVars >>

\* SessionRepository.create_session: db.add, db.commit, db.refresh
repo_create_session_commit(w) ==
    /\ requests[w].pc = "create_insert"
    /\ db_sessions' = db_sessions \cup
          {[id |-> next_session_id, title |-> requests[w].title, active |-> FALSE]}
    /\ next_session_id' = next_session_id + 1
    /\ Goto(w, [requests[w] EXCEPT !.held = next_session_id,
                                   !.pc = "deactivate_query", !.ret = "cache_delete"])
    /\ UNCHANGED cache_active_session_id
    /\ UNCHANGED << mlAgentVars, agentsVars, workflowVars, fileVars >>

\* SessionService.set_active_session: get_session_by_title, 404 if None
service_set_active_get(w) ==
    /\ requests[w].pc = "service_get"
    /\ IF ByTitle(db_sessions, requests[w].title) = {}
       THEN Done(w)
       ELSE \E r \in ByTitle(db_sessions, requests[w].title) :
               Goto(w, [requests[w] EXCEPT !.held = r.id, !.pc = "service_active_query"])
    /\ UNCHANGED << db_sessions, cache_active_session_id, next_session_id >>
    /\ UNCHANGED << mlAgentVars, agentsVars, workflowVars, fileVars >>

\* SessionService.set_active_session: get_active_session decides whether the
\* deactivation (database, then cache) is done
service_set_active_query(w) ==
    /\ requests[w].pc = "service_active_query"
    /\ IF ActiveRows(db_sessions) # {}
       THEN Goto(w, [requests[w] EXCEPT !.pc = "deactivate_query", !.ret = "cache_delete"])
       ELSE Goto(w, [requests[w] EXCEPT !.pc = "activate_query"])
    /\ UNCHANGED << db_sessions, cache_active_session_id, next_session_id >>
    /\ UNCHANGED << mlAgentVars, agentsVars, workflowVars, fileVars >>

\* SessionRepository.deactivate_active_session: the query for the active row
repo_deactivate_query(w) ==
    /\ requests[w].pc = "deactivate_query"
    /\ IF ActiveRows(db_sessions) = {}
       THEN Goto(w, [requests[w] EXCEPT !.pc = requests[w].ret])
       ELSE \E r \in ActiveRows(db_sessions) :
               Goto(w, [requests[w] EXCEPT !.active = r.id, !.pc = "deactivate_commit"])
    /\ UNCHANGED << db_sessions, cache_active_session_id, next_session_id >>
    /\ UNCHANGED << mlAgentVars, agentsVars, workflowVars, fileVars >>

\* SessionRepository.deactivate_active_session: active = False, db.commit();
\* the UPDATE of a row deleted meanwhile raises StaleDataError
repo_deactivate_commit(w) ==
    /\ requests[w].pc = "deactivate_commit"
    /\ IF HasRow(db_sessions, requests[w].active)
       THEN /\ db_sessions' = UpdateActive(db_sessions, requests[w].active, FALSE)
            /\ Goto(w, [requests[w] EXCEPT !.pc = requests[w].ret, !.active = 0])
       ELSE /\ Done(w)
            /\ UNCHANGED db_sessions
    /\ UNCHANGED << cache_active_session_id, next_session_id >>
    /\ UNCHANGED << mlAgentVars, agentsVars, workflowVars, fileVars >>

\* SessionCacheManager.deactivate_active_session_id: a RedisError is swallowed
cache_deactivate_active_session_id(w) ==
    /\ requests[w].pc = "cache_delete"
    /\ cache_active_session_id' \in {NoKey, cache_active_session_id}
    /\ Goto(w, [requests[w] EXCEPT !.pc = "activate_query"])
    /\ UNCHANGED << db_sessions, next_session_id >>
    /\ UNCHANGED << mlAgentVars, agentsVars, workflowVars, fileVars >>

\* SessionRepository.set_active_session: get_session_by_title, raises
\* SessionNotFoundError if None, then deactivate_active_session
repo_set_active_query(w) ==
    /\ requests[w].pc = "activate_query"
    /\ IF ByTitle(db_sessions, requests[w].title) = {}
       THEN Done(w)
       ELSE \E r \in ByTitle(db_sessions, requests[w].title) :
               Goto(w, [requests[w] EXCEPT !.target = r.id, !.pc = "deactivate_query",
                                           !.ret = "activate_commit"])
    /\ UNCHANGED << db_sessions, cache_active_session_id, next_session_id >>
    /\ UNCHANGED << mlAgentVars, agentsVars, workflowVars, fileVars >>

\* SessionRepository.set_active_session: active = True, db.commit()
repo_set_active_commit(w) ==
    /\ requests[w].pc = "activate_commit"
    /\ IF HasRow(db_sessions, requests[w].target)
       THEN /\ db_sessions' = UpdateActive(db_sessions, requests[w].target, TRUE)
            /\ Goto(w, [requests[w] EXCEPT !.pc = "cache_set", !.target = 0,
                                           !.ret = ""])
       ELSE /\ Done(w)
            /\ UNCHANGED db_sessions
    /\ UNCHANGED << cache_active_session_id, next_session_id >>
    /\ UNCHANGED << mlAgentVars, agentsVars, workflowVars, fileVars >>

\* SessionCacheManager.cache_active_session_id: a RedisError is swallowed
cache_cache_active_session_id(w) ==
    /\ requests[w].pc = "cache_set"
    /\ cache_active_session_id' \in {requests[w].held, cache_active_session_id}
    /\ Done(w)
    /\ UNCHANGED << db_sessions, next_session_id >>
    /\ UNCHANGED << mlAgentVars, agentsVars, workflowVars, fileVars >>

\* SessionRepository.delete_session: get_session_by_title; 404 if None, 400
\* if the loaded row is active
repo_delete_query(w) ==
    /\ requests[w].pc = "delete_query"
    /\ IF ByTitle(db_sessions, requests[w].title) = {}
       THEN Done(w)
       ELSE \E r \in ByTitle(db_sessions, requests[w].title) :
               IF r.active THEN Done(w)
               ELSE Goto(w, [requests[w] EXCEPT !.held = r.id, !.pc = "delete_commit"])
    /\ UNCHANGED << db_sessions, cache_active_session_id, next_session_id >>
    /\ UNCHANGED << mlAgentVars, agentsVars, workflowVars, fileVars >>

\* SessionRepository.delete_session: db.delete(db_session), db.commit()
repo_delete_commit(w) ==
    /\ requests[w].pc = "delete_commit"
    /\ db_sessions' = {r \in db_sessions : r.id # requests[w].held}
    /\ Done(w)
    /\ UNCHANGED << cache_active_session_id, next_session_id >>
    /\ UNCHANGED << mlAgentVars, agentsVars, workflowVars, fileVars >>

\* SessionService.get_active_session_id: the cached id if the read gives one
service_get_active_cache(w) ==
    /\ requests[w].pc = "cache_get"
    /\ \/ /\ cache_active_session_id # NoKey
          /\ Done(w)
       \/ Goto(w, [requests[w] EXCEPT !.pc = "active_query"])
    /\ UNCHANGED << db_sessions, cache_active_session_id, next_session_id >>
    /\ UNCHANGED << mlAgentVars, agentsVars, workflowVars, fileVars >>

\* SessionService.get_active_session_id: fall back to the database, 404 if
\* there is no active row
service_get_active_db(w) ==
    /\ requests[w].pc = "active_query"
    /\ IF ActiveRows(db_sessions) = {}
       THEN Done(w)
       ELSE \E r \in ActiveRows(db_sessions) :
               Goto(w, [requests[w] EXCEPT !.held = r.id, !.pc = "cache_set"])
    /\ UNCHANGED << db_sessions, cache_active_session_id, next_session_id >>
    /\ UNCHANGED << mlAgentVars, agentsVars, workflowVars, fileVars >>

SessionNext ==
    \E w \in Workers :
        \/ StartRequest(w)
        \/ repo_create_session_query(w)
        \/ repo_create_session_commit(w)
        \/ service_set_active_get(w)
        \/ service_set_active_query(w)
        \/ repo_deactivate_query(w)
        \/ repo_deactivate_commit(w)
        \/ cache_deactivate_active_session_id(w)
        \/ repo_set_active_query(w)
        \/ repo_set_active_commit(w)
        \/ cache_cache_active_session_id(w)
        \/ repo_delete_query(w)
        \/ repo_delete_commit(w)
        \/ service_get_active_cache(w)
        \/ service_get_active_db(w)

SessionSpec == Init /\ [][SessionNext]_vars

(* ----------------------- energy_agents: files -------------------------- *)

EaResponse(op, file, outcome, returned) ==
    [op |-> op, file |-> file, session |-> "", outcome |-> outcome,
     returned |-> returned]

\* FileService.upload_file: storage, then the database row, then the cache;
\* with Redis down get_cached_files raises after the row is committed
ea_upload_file ==
    \E file_name \in FileNames, redis_up \in BOOLEAN :
        /\ ea_storage' = ea_storage \cup {file_name}
        /\ IF EnergyFileRepository_get_file(ea_db, file_name)
           THEN /\ ea_last' = EaResponse("upload_file", file_name, "error", {})
                /\ UNCHANGED << ea_db, ea_cache >>
           ELSE /\ ea_db' = EnergyFileRepository_create_file(ea_db, file_name)
                /\ IF redis_up
                   THEN /\ ea_cache' = add_file_to_cache(ea_cache, file_name)
                        /\ ea_last' = EaResponse("upload_file", file_name, "ok", {})
                   ELSE /\ ea_last' = EaResponse("upload_file", file_name, "error", {})
                        /\ UNCHANGED ea_cache
        /\ UNCHANGED << mlAgentVars, agentsVars, workflowVars, sessionVars,
                        fileServiceVars >>

\* FileService.get_files: the cached dictionary if it is not empty, else
\* the rows, each added to the cache, and the cache read again
ea_get_files ==
    \E redis_up \in BOOLEAN :
        /\ IF ~redis_up
           THEN /\ ea_last' = EaResponse("get_files", "", "error", {})
                /\ UNCHANGED ea_cache
           ELSE IF ea_cache # {}
           THEN /\ ea_last' = EaResponse("get_files", "", "ok", ea_cache)
                /\ UNCHANGED ea_cache
           ELSE /\ ea_cache' = EnergyFileRepository_get_files(ea_db)
                /\ ea_last' = EaResponse("get_files", "", "ok",
                                         EnergyFileRepository_get_files(ea_db))
        /\ UNCHANGED << ea_db, ea_storage >>
        /\ UNCHANGED << mlAgentVars, agentsVars, workflowVars, sessionVars,
                        fileServiceVars >>

\* FileService.delete_file: 404 without a row; else the row is deleted,
\* then delete_file_from_cache (returns on an empty cache, del raises
\* KeyError on a missing entry), then the stored file
ea_delete_file ==
    \E file_name \in FileNames, redis_up \in BOOLEAN :
        /\ IF ~EnergyFileRepository_get_file(ea_db, file_name)
           THEN /\ ea_last' = EaResponse("delete_file", file_name, "404", {})
                /\ UNCHANGED << ea_db, ea_cache, ea_storage >>
           ELSE /\ ea_db' = EnergyFileRepository_delete_file(ea_db, file_name)
                /\ IF ~redis_up \/ (ea_cache # {} /\ file_name \notin ea_cache)
                   THEN /\ ea_last' = EaResponse("delete_file", file_name, "error", {})
                        /\ UNCHANGED << ea_cache, ea_storage >>
                   ELSE /\ ea_cache' = ea_cache \ {file_name}
                        /\ ea_storage' = ea_storage \ {file_name}
                        /\ ea_last' = EaResponse("delete_file", file_name, "ok", {})
        /\ UNCHANGED << mlAgentVars, agentsVars, workflowVars, sessionVars,
                        fileServiceVars >>

\* the TTL of the user's key runs out
ea_cache_expiry ==
    /\ ea_cache # {}
    /\ ea_cache' = {}
    /\ UNCHANGED << ea_db, ea_storage, ea_last >>
    /\ UNCHANGED << mlAgentVars, agentsVars, workflowVars, sessionVars,
                    fileServiceVars >>

EnergyFileNext ==
    ea_upload_file \/ ea_get_files \/ ea_delete_file \/ ea_cache_expiry

EnergyFileSpec == Init /\ [][EnergyFileNext]_vars

(* --------------------------- file_service ------------------------------ *)

FsResponse(op, file, sid, outcome, returned) ==
    [op |-> op, file |-> file, session |-> sid, outcome |-> outcome,
     returned |-> returned]

\* cache_active_file_data: hset and expire, a RedisError is swallowed
cache_active_file_data(cache, sid, file_name, redis_up) ==
    IF redis_up THEN [cache EXCEPT ![sid] = file_name] ELSE cache

\* get_active_file_data: hgetall, None on a RedisError
get_active_file_data(cache, sid, redis_up) ==
    IF redis_up THEN cache[sid] ELSE NoFile

\* FileService.upload_file: storage, the database row, the session's cache
fs_upload_file ==
    \E file_name \in FileNames, sid \in FileSessions, redis_up \in BOOLEAN :
        /\ fs_storage' = fs_storage \cup {file_name}
        /\ IF FileRepository_get_file(fs_db, file_name)
           THEN /\ fs_last' = FsResponse("upload_file", file_name, sid, "error", {})
                /\ UNCHANGED << fs_db, fs_cache >>
           ELSE /\ fs_db' = FileRepository_create_file(fs_db, file_name)
                /\ fs_cache' = cache_active_file_data(fs_cache, sid, file_name,
                                                      redis_up)
                /\ fs_last' = FsResponse("upload_file", file_name, sid, "ok", {})
        /\ UNCHANGED << mlAgentVars, agentsVars, workflowVars, sessionVars,
                        energyFileVars >>

\* FileService.set_active_file: 404 without a row, else the row is cached
fs_set_active_file ==
    \E file_name \in FileNames, sid \in FileSessions, redis_up \in BOOLEAN :
        /\ IF ~FileRepository_get_file(fs_db, file_name)
           THEN /\ fs_last' = FsResponse("set_active_file", file_name, sid, "404", {})
                /\ UNCHANGED fs_cache
           ELSE /\ fs_cache' = cache_active_file_data(fs_cache, sid, file_name,
                                                      redis_up)
                /\ fs_last' = FsResponse("set_active_file", file_name, sid, "ok", {})
        /\ UNCHANGED << fs_db, fs_storage >>
        /\ UNCHANGED << mlAgentVars, agentsVars, workflowVars, sessionVars,
                        energyFileVars >>

\* FileService.get_active_file: the cached hash, 404 when it is empty
fs_get_active_file ==
    \E sid \in FileSessions, redis_up \in BOOLEAN :
        LET cached_file == get_active_file_data(fs_cache, sid, redis_up)
        IN /\ fs_last' = IF cached_file = NoFile
                         THEN FsResponse("get_active_file", "", sid, "404", {})
                         ELSE FsResponse("get_active_file", "", sid, "ok",
                                         {cached_file})
           /\ UNCHANGED << fs_db, fs_cache, fs_storage >>
           /\ UNCHANGED << mlAgentVars, agentsVars, workflowVars, sessionVars,
                           energyFileVars >>

\* FileService.delete_file: 404 without a row, else the row and the stored
\* file are deleted
fs_delete_file ==
    \E file_name \in FileNames :
        /\ IF ~FileRepository_get_file(fs_db, file_name)
           THEN /\ fs_last' = FsResponse("delete_file", file_name, "", "404", {})
                /\ UNCHANGED << fs_db, fs_storage >>
           ELSE /\ fs_db' = FileRepository_delete_file(fs_db, file_name)
                /\ fs_storage' = fs_storage \ {file_name}
                /\ fs_last' = FsResponse("delete_file", file_name, "", "ok", {})
        /\ UNCHANGED fs_cache
        /\ UNCHANGED << mlAgentVars, agentsVars, workflowVars, sessionVars,
                        energyFileVars >>

\* the TTL of a session's key runs out
fs_cache_expiry ==
    \E sid \in FileSessions :
        /\ fs_cache[sid] # NoFile
        /\ fs_cache' = [fs_cache EXCEPT ![sid] = NoFile]
        /\ UNCHANGED << fs_db, fs_storage, fs_last >>
        /\ UNCHANGED << mlAgentVars, agentsVars, workflowVars, sessionVars,
                        energyFileVars >>

FileServiceNext ==
    \/ fs_upload_file
    \/ fs_set_active_file
    \/ fs_get_active_file
    \/ fs_delete_file
    \/ fs_cache_expiry

FileServiceSpec == Init /\ [][FileServiceNext]_vars

(* ------------------------------ claims -------------------------------- *)

Succeeded == routed = "Succeeded"
Exhausted == routed = "Exhausted"

\* the error text a run that exceeded the time limit is said to end with
TimeoutMessage == "timeout"

\* the executor is inside exec() of code that never finishes
Hung == pc = "code_executor" /\ ThisRun.raised = "diverge"

\* C1: the number of Synthesizer calls (code_generator plus code_debugger)
\* a Task makes is at most max_attempts.
C1_SynthCallsAtMostMax == synthCalls <= MaxAttempts

\* C2: a Task whose every code artifact fails reaches Exhausted after
\* exactly max_attempts failed code_executor invocations.
C2_ExhaustedAfterExactlyMax ==
    (Exhausted /\ failedExecs = execCalls) => failedExecs = MaxAttempts

\* C3: whenever code_executor ends in Failure, the environment of the Task
\* state (bindings and the values they denote) equals the one passed in.
C3_FailureLeavesEnvUnchanged ==
    (lastRun.ran /\ lastRun.raised # "none")
        => EnvValues(code_variables, heap) = envBefore

\* C4: if the code of a code_executor invocation raises an error of any
\* kind, the state records Failure with that error's message and the Task
\* is not routed as Success by that invocation.
C4_RaiseRecordsFailure ==
    (lastRun.ran /\ lastRun.raised # "none")
        => (error_message = lastRun.msg /\ ~Succeeded)

\* C5: after a code_executor invocation that ends in Success, every value of
\* the new environment passes the pickle check, none is a module, and no
\* binding carries the name of a declared capability.
C5_SuccessEnvTransferable ==
    (lastRun.ran /\ lastRun.raised = "none")
        => \A n \in DOMAIN code_variables :
              /\ heap[code_variables[n]].kind \notin {"module", "handle"}
              /\ code_variables[n] # NumpyId
              /\ n \notin dependencies

\* C5 witness: a successful run whose context held a module and a live
\* handle, both dropped, while a computed value was kept
C5_Witness ==
    /\ lastRun.ran /\ lastRun.raised = "none"
    /\ {"np", "f", "numpy"} \subseteq lastRun.dropped
    /\ "analysis_report" \in DOMAIN code_variables

\* C6: when a Task is Exhausted the fallback handler runs exactly once and is
\* given the user's original question.
C6_FallbackGetsOriginalQuestion ==
    /\ fallbackCalls <= 1
    /\ (Exhausted /\ pc = "END") => (fallbackCalls = 1 /\ fallbackInput = question)

\* C7: if the k-th artifact is the first whose execution succeeds
\* (1 <= k <= max_attempts), the Task makes exactly k Synthesizer calls and
\* k Executor calls, is Succeeded, and never invokes the fallback handler.
C7_FirstSuccessAtK ==
    \A k \in 1..MaxAttempts :
        firstOk = k => /\ synthCalls = k
                       /\ execCalls = k
                       /\ Succeeded
                       /\ fallbackCalls = 0

\* C7 witness: the second artifact was the first to succeed and the Task ended
C7_Witness == firstOk = 2 /\ failedExecs = 1 /\ pc = "END"

\* C8: at every terminal state (Succeeded or Exhausted) the number of
\* code_executor invocations equals the number of Synthesizer invocations.
C8_ExecCallsEqualSynthCalls ==
    (Succeeded \/ Exhausted) => execCalls = synthCalls

\* C8 witness: an Exhausted Task that went through the debugger
C8_Witness == Exhausted /\ pc = "END" /\ synthCalls > 1 /\ execCalls > 1

\* C9: every Task eventually reaches Succeeded or Exhausted, unless one of
\* its planner, synthesizer or executor calls does not return (it raises, or
\* the executed code never finishes).
C9_EventuallyTerminal ==
    <>(Succeeded \/ Exhausted \/ pc = "crashed" \/ Hung)

\* C9 witness: a Task that left the repair loop after looping back
C9_Witness == Succeeded /\ current_debugging_attempt = 0 /\ failedExecs = MaxAttempts

\* C10: a code_executor invocation whose code runs longer than the per-attempt
\* timeout is ended and yields Failure with a timeout-specific error.
C10_TimeoutEndsRun ==
    elapsed > ExecTimeout
        => (pc # "code_executor" /\ error_message = TimeoutMessage /\ ~Succeeded)

\* C11: if the upstream call of code_generator or code_debugger raises, the
\* error does not leave the repair loop (the attempt is recorded as a Failure
\* instead).
C11_UpstreamFailureStaysInLoop ==
    crashedIn \notin {"code_generator", "code_debugger"}

\* C12: every executor run of code that imports a library outside the
\* allowed capabilities ends in Failure.
C12_UnlistedImportFails ==
    (lastRun.ran /\ lastRun.unlisted) => lastRun.raised # "none"

\* C13: no caller-visible event carries a notice of an intermediate failure
\* or is derived from an attempt's error text; the only sign of failure is
\* the fallback message after exhaustion.
C13_NoFailureSurfaced ==
    \A ev \in events :
        IF ev.node = "fallback_handler"
        THEN Exhausted /\ ~ev.error
        ELSE ~ev.notice /\ ~ev.error

\* C13 (amended): a failure notice reaches the caller only through the
\* streamed output of code_debugger or through the fallback message; only
\* code_debugger output is generated from an attempt's error text; the
\* executor emits no event; the fallback message occurs only after
\* exhaustion and ends the Task.
C13_FailureSurfacedOnlyByDebugger ==
    \A ev \in events :
        /\ ev.node \notin {"code_executor", "task_decomposer"}
        /\ ev.notice => ev.node \in {"code_debugger", "fallback_handler"}
        /\ ev.error => ev.node = "code_debugger"
        /\ ev.node = "fallback_handler" => (Exhausted /\ pc = "END")

\* C13 witness: a Task that succeeded after the debugger's output, generated
\* from the error text, had been streamed to the caller
C13_Witness ==
    /\ Succeeded /\ pc = "END"
    /\ \E ev \in events :
          ev.node = "code_debugger" /\ ev.error /\ ev.notice

\* C14: the input of the fallback handler is determined by the Task's
\* question and plan alone; it is the same whatever the error messages and
\* the code of the failed attempts were.
C14_FallbackInputIndependentOfErrors ==
    fallbackCalls > 0 => fallbackInput = planText

\* C14 witness: the fallback ran after attempts that left an error text
C14_Witness ==
    fallbackCalls = 1 /\ error_message \notin {None, ""} /\ failedExecs > 1

\* the successful run left a visualization payload in the environment
VizPayload ==
    /\ lastRun.ran /\ lastRun.raised = "none"
    /\ "image" \in DOMAIN code_variables
    /\ code_variables["image"] # NoneId

\* C15: on Succeeded with a visualization payload, visualization_display runs
\* exactly once and before analysis_responder; on every Succeeded Task
\* analysis_responder runs exactly once and is the last step.
C15_VisualizationThenNarrative ==
    /\ vizCalls <= 1 /\ narrativeCalls <= 1
    /\ pc = "visualization_display" => narrativeCalls = 0
    /\ (Succeeded /\ VizPayload /\ pc \in {"analysis_responder", "END", "crashed"})
          => vizCalls = 1
    /\ (Succeeded /\ pc = "END") => narrativeCalls = 1
    /\ narrativeCalls > 0 => pc \in {"END", "crashed"}

\* C15 witness: a finished Task that delivered the visualization and the narrative
C15_Witness ==
    Succeeded /\ VizPayload /\ pc = "END" /\ vizCalls = 1 /\ narrativeCalls = 1

\* C16: on Succeeded with no visualization payload, visualization_display is
\* never executed.
C16_NoPayloadSkipsVisualization ==
    (Succeeded /\ ~VizPayload) => (vizCalls = 0 /\ pc # "visualization_display")

\* C16 witness: a finished Task whose successful run produced a report only
C16_Witness ==
    /\ Succeeded /\ pc = "END" /\ lastRun.raised = "none"
    /\ "analysis_report" \in lastRun.kept /\ ~VizPayload /\ narrativeCalls = 1

\* C17: a run that raises nothing but leaves analysis_report absent is a
\* Success whose report, as handed to the narrative step, is a sequence
\* (the empty one) and not an undefined value.
C17_AbsentReportIsEmptySequence ==
    (lastRun.ran /\ lastRun.raised = "none" /\ "analysis_report" \notin lastRun.kept)
        => (Succeeded /\ analysis_response # NoneId)

\* C18: code executed by another Task changes nothing this Task's code can
\* observe.
C18_NoInterference == [][OtherTaskExecutor => heap' = heap]_vars

\* C19: the planner is invoked exactly once, before the first Synthesizer
\* call, and the plan text is the same for every attempt.
C19_PlannerOnce ==
    /\ plannerCalls <= 1
    /\ plannerCalls = 0 => (synthCalls = 0 /\ execCalls = 0)
    /\ synthCalls > 0 => (plannerCalls = 1 /\ task = planText)

\* C19 witness: a Task that retried as often as it may, with one planner call
C19_Witness == plannerCalls = 1 /\ current_debugging_attempt = MaxAttempts

\* C20: once the fallback handler has run the Task is over, no visualization
\* or narrative step belongs to an Exhausted Task, and a Succeeded Task never
\* runs the fallback handler or goes back into the repair loop.
C20_FallbackIsTerminal ==
    /\ ~(Succeeded /\ Exhausted)
    /\ fallbackCalls > 0 => (pc = "END" /\ Exhausted)
    /\ Exhausted => (vizCalls = 0 /\ narrativeCalls = 0
                     /\ pc \in {"fallback_handler", "END", "crashed"})
    /\ Succeeded => (fallbackCalls = 0
                     /\ pc \in {"visualization_display", "analysis_responder",
                                "END", "crashed"})

\* C20 witness: the Task ended in the fallback handler
C20_Witness ==
    fallbackCalls = 1 /\ pc = "END" /\ narrativeCalls = 0 /\ vizCalls = 0

\* a caller-visible event of the given node has been emitted
Emitted(evs, node) == \E ev \in evs : ev.node = node

\* C21: the caller-visible events follow the state machine: a plan-ready
\* event precedes the first code-attempt output, the visualization event
\* precedes the narrative, and the fallback message never occurs together
\* with narrative output.
C21_EventOrder ==
    [][ /\ (\E ev \in events' \ events : ev.node \in {"code_generator", "code_debugger"})
            => Emitted(events, "task_decomposer")
        /\ (Emitted(events', "analysis_responder") /\ vizCalls' > 0)
            => Emitted(events', "visualization_display")
        /\ ~(Emitted(events', "fallback_handler") /\ Emitted(events', "analysis_responder"))
      ]_vars

\* C24: every code_debugger call receives the error message of the
\* immediately preceding failed executor run, never an absent one, and the
\* code_generator call is made before any run has failed.
C24_DebuggerGetsLastFailure ==
    /\ pc = "code_debugger" =>
          /\ lastRun.ran /\ lastRun.raised # "none"
          /\ error_message # None
          /\ error_message = lastRun.msg
    /\ pc = "code_generator" => (~lastRun.ran /\ error_message = None)

\* C26: Synthesizer and Executor calls strictly alternate, starting with a
\* Synthesizer call: a synthesis starts only when every earlier attempt has
\* been executed, and an execution only when exactly one synthesized artifact
\* is waiting.
C26_SynthExecAlternate ==
    [][ /\ synthCalls' # synthCalls =>
              (synthCalls = execCalls /\ pc' = "code_executor")
        /\ execCalls' # execCalls =>
              (synthCalls = execCalls + 1 /\ synthCalls' = synthCalls
               /\ pc' # "code_executor")
      ]_vars

\* C26 witness: the second attempt has been executed and a third synthesis is due
C26_Witness == pc = "code_debugger" /\ synthCalls = 2 /\ execCalls = 2

\* C27: when the synthesizer's output holds no fenced python block, the
\* executor run ends in Failure with an error description, leaves the
\* environment unchanged and is routed to the debugger or, when no attempt
\* is left, to the fallback.
C27_NoFenceIsFailure ==
    (lastRun.ran /\ execCalls = synthCalls /\ ~code.fenced) =>
        /\ lastRun.raised = "Exception"
        /\ error_message = lastRun.msg /\ error_message \notin {None, ""}
        /\ EnvValues(code_variables, heap) = envBefore
        /\ pc \in {"code_debugger", "fallback_handler", "END", "crashed"}
        /\ ~Succeeded
        /\ (pc = "code_debugger" => current_debugging_attempt < MaxAttempts)

\* C27 witness: an unfenced answer was executed and the debugger is next
C27_Witness ==
    lastRun.ran /\ execCalls = synthCalls /\ ~code.fenced /\ pc = "code_debugger"

\* C28: after a run that raised nothing, every binding of the resulting
\* context whose value is transferable data is retained, whatever its name.
C28_TransferableSubsetRetained ==
    (lastRun.ran /\ lastRun.raised = "none") => lastRun.lost = {}

\* the capabilities that resolve
Resolvable == {p \in dependencies : ImportModule(p) # 0}

\* C30: a declared capability that cannot be resolved is skipped: the code
\* runs with the prior environment and the capabilities that do resolve, and
\* the run ends in Failure only if that code raises.
C30_UnresolvedCapabilitySkipped ==
    [][ execCalls' # execCalls =>
          LET r == exec(_extract_code(code),
                        code_variables @@ [d \in Resolvable |-> ImportModule(d)],
                        heap)
          IN /\ lastRun'.raised = r.raised
             /\ (error_message' # None /\ error_message' # error_message)
                    => r.raised = "Exception"
             /\ r.raised = "none" => error_message' = None
      ]_vars

\* C30 witness: with an unresolvable capability declared, code that uses a
\* resolved one ran and raised nothing
C30_Witness ==
    /\ \E p \in dependencies : ImportModule(p) = 0
    /\ lastRun.ran /\ lastRun.raised = "none"
    /\ code.fenced /\ code.prog = P_patch /\ execCalls = synthCalls

\* C25: the attempt counter is 0 when the Task enters the loop, stays within
\* 0..max_attempts, and is one higher for each failed execution that looped
\* back to generation.
C25_AttemptCountsFailures ==
    /\ ag_current_debugging_attempt \in 0..max_debugging_attempts
    /\ ag_toolCalls = 0 => ag_current_debugging_attempt = 0
    /\ ag_failedRuns <= max_debugging_attempts
          => ag_current_debugging_attempt = ag_failedRuns

\* C29: a run whose code raises an error with an empty message text is a
\* Failure: it is routed to retry (or fallback), never to the end of the
\* success path.
C29_EmptyMessageIsFailure ==
    (wf_lastRun.ran /\ wf_lastRun.raised = "Exception" /\ wf_lastRun.msg = "")
        => wf_pc # "END"

\* C22: after any interleaving of create_session, set_active_session and
\* delete_session calls the user has at most one session whose active flag
\* is true in the database.
C22_AtMostOneActiveSession == Cardinality(ActiveRows(db_sessions)) <= 1

\* C23: the user never has two sessions with the same title, also when two
\* create_session requests with that title run concurrently.
C23_UniqueTitles ==
    \A r1 \in db_sessions : \A r2 \in db_sessions :
        r1.title = r2.title => r1.id = r2.id

\* C31: an executor run that ends in Success leaves no error recorded and
\* the attempt counter at 0; one that ends in Failure changes neither the
\* attempt counter nor the stored code.
C31_ExecutorFrame ==
    [][(pc = "code_executor" /\ pc' # "code_executor") =>
          /\ lastRun'.raised = "none" => error_message' = None
          /\ error_message' = None => current_debugging_attempt' = 0
          /\ error_message' # None =>
                /\ current_debugging_attempt' = current_debugging_attempt
                /\ code' = code]_vars

\* a run that succeeded after failed ones, with the counter back at 0
C31_Witness ==
    /\ lastRun.ran /\ lastRun.raised = "none" /\ failedExecs > 0
    /\ error_message = None /\ current_debugging_attempt = 0

\* C32: in the tool-calling agent the number of tool_execute invocations of
\* one chat request never exceeds max_debugging_attempts, also when the
\* generated code fails every time.
C32_ToolCallsBounded == ag_toolCalls <= max_debugging_attempts

\* C33: in the workflow graph the dispatch after code_execution is
\* exhaustive: the label should_continue returns is a key of the
\* conditional-edge map, and a run whose code raised is followed by
\* code_generation.
C33_DispatchExhaustive ==
    [][(wf_pc = "code_execution" /\ wf_lastRun'.raised # "BaseException") =>
          /\ WorkflowEdges(wf_label') # "crashed"
          /\ wf_lastRun'.raised = "Exception" => wf_pc' = "code_generation"]_vars

\* C34: between requests, whenever the cache holds an active-session id it
\* is the id of the session marked active in the database, also when single
\* Redis operations have failed silently.
C34_CacheMatchesDatabase ==
    (\A w \in Workers : requests[w].op = "idle") =>
        (cache_active_session_id # NoKey =>
            \E r \in ActiveRows(db_sessions) : r.id = cache_active_session_id)

\* C35: a delete_session that is rejected (unknown title, or the session is
\* active) leaves the database rows and the cached id unchanged, and no
\* step deletes a session that is marked active.
C35_ActiveNeverDeleted ==
    [][/\ \A w \in Workers :
            (requests[w].pc = "delete_query" /\ requests'[w] = Idle) =>
                /\ db_sessions' = db_sessions
                /\ cache_active_session_id' = cache_active_session_id
       /\ \A r \in db_sessions :
            ~HasRow(db_sessions', r.id) => ~r.active]_vars

\* C36: get_files returns exactly the set of files recorded in the
\* database for the user, after any sequence of upload_file, delete_file
\* and get_files calls and cache expiries.
C36_GetFilesMatchesDatabase ==
    (ea_last.op = "get_files" /\ ea_last.outcome = "ok")
        => ea_last.returned = ea_db

\* C37: delete_file either removes the file from database, cache and
\* storage together or leaves all three unchanged.
C37_DeleteAllOrNothing ==
    [][(ea_last'.op = "delete_file" /\ ea_last' # ea_last) =>
          \/ /\ ea_last'.file \notin ea_db'
             /\ ea_last'.file \notin ea_cache'
             /\ ea_last'.file \notin ea_storage'
          \/ UNCHANGED << ea_db, ea_cache, ea_storage >>]_vars

\* C38: the file get_active_file reports for a session is a file that
\* still exists in the database, also after delete_file removed a file.
C38_ActiveFileExists ==
    (fs_last.op = "get_active_file" /\ fs_last.outcome = "ok")
        => fs_last.returned \subseteq fs_db

====
